---------------------------- MODULE Spec2Model ----------------------------
(***************************************************************************)
(* Navigation of zoosky/doctave (src/src/navigation.rs): the default link  *)
(* tree built from a Directory, the canonical URI of a path, and the       *)
(* customisation of the default tree by the configured rule list.          *)
(*                                                                         *)
(* Encoding of strings.                                                    *)
(*  - A file or directory name is the sequence of its dot-free segments:   *)
(*    "one.md" is <<"one","md">>, "v1.2" is <<"v1","2">>, "child" is       *)
(*    <<"child">>.  A Path is the sequence of its (normal) components.     *)
(*  - A URI string is the sequence of its tokens, the separators "/" and   *)
(*    "." being tokens of their own: "/child/three" is                     *)
(*    <<"/","child","/","three">>.  Two URIs are equal as strings exactly  *)
(*    when their token sequences are equal.                                *)
(*  - A title is the sequence of its characters.                           *)
(***************************************************************************)
EXTENDS Integers, Sequences, FiniteSets, TLC

VARIABLES
    nav,      \* Config::navigation(): the configured rule list, or NoNav
    pc,       \* "new" after Navigation::new, "done" after build_for
    dir,      \* the Directory handed to build_for
    default,  \* build_for's local `default`
    result    \* what build_for returned, or the panic that ended it

vars == <<nav, pc, dir, default, result>>

-----------------------------------------------------------------------------
(* Sequences *)

Last(s) == s[Len(s)]
Front(s) == SubSeq(s, 1, Len(s) - 1)
Range(s) == {s[i] : i \in 1..Len(s)}

RECURSIVE SeqsUpTo(_, _)
\* the sequences of pairwise distinct elements of S of length <= n
SeqsUpTo(S, n) ==
    IF n = 0 \/ S = {} THEN {<<>>}
    ELSE {<<>>} \cup UNION {{<<x>> \o t : t \in SeqsUpTo(S \ {x}, n - 1)} : x \in S}

-----------------------------------------------------------------------------
(* Characters and alphanumeric_sort::compare_str *)

Digits == <<"0", "1", "2", "3", "4", "5", "6", "7", "8", "9">>
Upper == <<"A", "B", "C", "D", "E", "F", "G", "H", "I", "J", "K", "L", "M",
           "N", "O", "P", "Q", "R", "S", "T", "U", "V", "W", "X", "Y", "Z">>
Lower == <<"a", "b", "c", "d", "e", "f", "g", "h", "i", "j", "k", "l", "m",
           "n", "o", "p", "q", "r", "s", "t", "u", "v", "w", "x", "y", "z">>

IndexIn(s, c) == CHOOSE i \in 1..Len(s) : s[i] = c

DigitSet == Range(Digits)
UpperSet == Range(Upper)

IsDigit(c) == c \in DigitSet
IsUpper(c) == c \in UpperSet

\* the code points of the characters (ASCII)
CodeOf ==
    [c \in Range(Digits) \cup Range(Upper) \cup Range(Lower) |->
        IF c \in DigitSet THEN 47 + IndexIn(Digits, c)
        ELSE IF c \in UpperSet THEN 64 + IndexIn(Upper, c)
        ELSE 96 + IndexIn(Lower, c)]

Code(c) == CodeOf[c]

DigitVal(c) == Code(c) - 48

RECURSIVE DigitRunLen(_, _)
\* the length of the maximal digit run of s that starts at position i
DigitRunLen(s, i) ==
    IF i > Len(s) \/ ~IsDigit(s[i]) THEN 0 ELSE 1 + DigitRunLen(s, i + 1)

RECURSIVE NumVal(_)
\* the number a sequence of digits writes
NumVal(ds) ==
    IF ds = <<>> THEN 0 ELSE 10 * NumVal(Front(ds)) + DigitVal(Last(ds))

CmpInt(x, y) == IF x < y THEN "Less" ELSE IF x > y THEN "Greater" ELSE "Equal"

\* CharKey with upper-case letters folded to lower case: a case-insensitive
\* comparison (C9 as stated; a fault the amended C9 must detect)
CharKeyFolded(c) == IF IsUpper(c) THEN Code(c) + 32 ELSE Code(c)

\* the key two characters that are not both digits are compared by: the
\* code point
CharKey(c) == Code(c)

RECURSIVE CompareFrom(_, _, _, _)
CompareFrom(a, b, i, j) ==
    IF i > Len(a) THEN (IF j > Len(b) THEN "Equal" ELSE "Less")
    ELSE IF j > Len(b) THEN "Greater"
    ELSE IF IsDigit(a[i]) /\ IsDigit(b[j])
    THEN LET la == DigitRunLen(a, i)
             lb == DigitRunLen(b, j)
             o  == CmpInt(NumVal(SubSeq(a, i, i + la - 1)),
                          NumVal(SubSeq(b, j, j + lb - 1)))
         IN  IF o # "Equal" THEN o
             ELSE IF la # lb THEN CmpInt(la, lb)
             ELSE CompareFrom(a, b, i + la, j + lb)
    ELSE LET o == CmpInt(CharKey(a[i]), CharKey(b[j]))
         IN  IF o # "Equal" THEN o ELSE CompareFrom(a, b, i + 1, j + 1)

\* alphanumeric_sort::compare_str(a, b)
compare_str(a, b) == CompareFrom(a, b, 1, 1)

RECURSIVE InsertSorted(_, _)
\* l inserted into the sorted list s after every element not greater than it
InsertSorted(s, l) ==
    IF s = <<>> THEN <<l>>
    ELSE IF compare_str(l.title, s[1].title) = "Less" THEN <<l>> \o s
    ELSE <<s[1]>> \o InsertSorted(Tail(s), l)

RECURSIVE SortByTitle(_)
\* links.sort_by(|a, b| compare_str(&a.title, &b.title)): a stable sort
SortByTitle(s) ==
    IF s = <<>> THEN <<>> ELSE InsertSorted(SortByTitle(Front(s)), Last(s))

-----------------------------------------------------------------------------
(* Paths and Link::path_to_uri *)

\* Path::extension of a file name: the part after its last dot, unless the
\* name has no dot or its only dot is its first character
HasExtension(name) ==
    /\ Len(name) >= 2
    /\ ~(Len(name) = 2 /\ name[1] = "")

\* Path::file_stem of a file name
FileStem(name) == IF HasExtension(name) THEN Front(name) ELSE name

\* PathBuf::set_extension(""): nothing without a file name
StripExtension(path) ==
    IF path = <<>> THEN path ELSE Front(path) \o <<FileStem(Last(path))>>

\* DropIndex without its branch: a final "index" is kept (a fault C8 must
\* detect)
KeepIndex(path) == path

\* tmp.parent() where tmp.file_name() is "index"
DropIndex(path) ==
    IF path # <<>> /\ Last(path) = <<"index">> THEN Front(path) ELSE path

RECURSIVE JoinWith(_, _)
\* the token sequences of parts, joined by the token sep
JoinWith(parts, sep) ==
    IF parts = <<>> THEN <<>>
    ELSE IF Len(parts) = 1 THEN parts[1]
    ELSE parts[1] \o <<sep>> \o JoinWith(Tail(parts), sep)

\* a component as the string it is: its segments joined by "."
NameStr(name) == JoinWith([i \in 1..Len(name) |-> <<name[i]>>], ".")

\* Link::path_to_uri(path)
path_to_uri(path) ==
    LET tmp == DropIndex(StripExtension(path))
    IN  <<"/">> \o JoinWith([i \in 1..Len(tmp) |-> NameStr(tmp[i])], "/")

-----------------------------------------------------------------------------
(* Document and Directory (crate::Document, crate::Directory) *)

Page(path, title) == [path |-> path, title |-> title]

\* Document::html_path(): the destination of the page, README.md being
\* rendered as index.html and every other page under its own stem
html_path(doc) ==
    IF Last(doc.path) = <<"README", "md">>
    THEN Front(doc.path) \o <<<<"index", "html">>>>
    ELSE Front(doc.path) \o <<FileStem(Last(doc.path)) \o <<"html">>>>

\* Document::title()
title(doc) == doc.title

\* Directory::index(): the directory's README.md
index(d) ==
    d.docs[CHOOSE i \in 1..Len(d.docs) :
               /\ Last(d.docs[i].path) = <<"README", "md">>
               /\ \A j \in 1..(i - 1) : Last(d.docs[j].path) # <<"README", "md">>]

-----------------------------------------------------------------------------
(* impl From<&Directory> for Vec<Link> *)

Link(path, ttl, children) == [path |-> path, title |-> ttl, children |-> children]

\* the Link of a document of the directory
DocLink(d) == Link(path_to_uri(html_path(d)), title(d), <<>>)

\* the documents' links without the one of the directory's own index
DocLinks(d) ==
    LET own == path_to_uri(html_path(index(d)))
        all == [i \in 1..Len(d.docs) |-> DocLink(d.docs[i])]
        Keep(l) == l.path # own
    IN  SelectSeq(all, Keep)

\* Arrange without the sort: the list as it was appended (a fault C2 must
\* detect)
ArrangeUnsorted(links) == links

\* links.sort_by(...)
Arrange(links) == SortByTitle(links)

RECURSIVE BuildLinks(_)
BuildLinks(d) ==
    LET links == DocLinks(d)
        children == [i \in 1..Len(d.dirs) |->
                        Link(path_to_uri(html_path(index(d.dirs[i]))),
                             title(index(d.dirs[i])),
                             BuildLinks(d.dirs[i]))]
    IN  Arrange(links \o children)

-----------------------------------------------------------------------------
(* Navigation::find_matching_link and Navigation::customize *)

FileRule(path) == [kind |-> "File", path |-> path, nested |-> <<>>]
DirRule(path, kind, nested) == [kind |-> kind, path |-> path, nested |-> nested]

\* the message of the panic of .expect(..), as the tokens of the string: a
\* literal, nothing interpolated
ExpectMessage == <<"Could not find matching doc for rule">>

Ok(links) == [ok |-> TRUE, links |-> links, msg |-> <<>>]
Panic(msg) == [ok |-> FALSE, links |-> <<>>, msg |-> msg]

\* path.components() after one next(): the path without its first component
without_docs_part(path) == IF path = <<>> THEN path ELSE Tail(path)

\* the URI a rule's path is matched by
RuleUri(path) == path_to_uri(without_docs_part(path))

\* the positions of the links the rule's path matches
Matches(path, links) == {i \in 1..Len(links) : links[i].path = RuleUri(path)}

\* iter().find(..): the first match
FirstMatch(path, links) ==
    CHOOSE i \in Matches(path, links) : \A j \in Matches(path, links) : i <= j

\* find_matching_link(path, links): a clone of the first match, or the panic
find_matching_link(path, links) ==
    IF Matches(path, links) = {}
    THEN [ok |-> FALSE, link |-> Link(<<>>, <<>>, <<>>), msg |-> ExpectMessage]
    ELSE [ok |-> TRUE, link |-> links[FirstMatch(path, links)], msg |-> <<>>]

\* Push at the wrong end: the link is put first (a fault C1 must detect)
PushFront(links, link) == <<link>> \o links

\* links.push(link)
Push(links, link) == Append(links, link)

\* Truncated without the truncate: the children are kept (a fault C6 must
\* detect)
NotTruncated(index_link) == index_link

\* Dir(path, None): index_link.children.truncate(0)
Truncated(index_link) == [index_link EXCEPT !.children = <<>>]

\* NestedCandidates with the wrong list: the nested rules are matched
\* against the list the directory itself was found in (a fault C5 must
\* detect)
SameCandidates(index_link, dflt) == dflt

\* Dir(path, Explicit(..)): the candidates of the nested rules
NestedCandidates(index_link, dflt) == index_link.children

RECURSIVE customize(_, _)
\* the loop over rules: the rules before the last one, then the last one
customize(rules, dflt) ==
    IF rules = <<>> THEN Ok(<<>>)
    ELSE LET before == customize(Front(rules), dflt)
             rule == Last(rules)
             found == find_matching_link(rule.path, dflt)
         IN  IF ~before.ok THEN before
             ELSE IF ~found.ok THEN Panic(found.msg)
             ELSE IF rule.kind = "File"
                  THEN Ok(Push(before.links, found.link))
             ELSE IF rule.kind = "DirNone"
                  THEN Ok(Push(before.links, Truncated(found.link)))
             ELSE IF rule.kind = "DirWildCard"
                  THEN Ok(Push(before.links, found.link))
             ELSE LET children == customize(rule.nested,
                                            NestedCandidates(found.link, dflt))
                  IN  IF ~children.ok THEN children
                      ELSE Ok(Push(before.links,
                                   [found.link EXCEPT !.children = children.links]))

\* Navigation::build_for(dir), given its `default`
build_for(n, dflt) == IF ~n.some THEN Ok(dflt) ELSE customize(n.rules, dflt)

-----------------------------------------------------------------------------
(* The inputs: directory trees and rule lists *)

\* the number of pages a directory holds beside its README.md, at most
MaxDocs == 2

\* the number of rules of a configured rule list, all nesting levels
\* counted, at most
MaxRules == 3

README == <<"README", "md">>
Md(stem) == <<stem, "md">>

RootPath == <<<<"docs">>>>
ChildRel == <<<<"child">>>>
NestedRel == <<<<"child">>, <<"nested">>>>
DottedRel == <<<<"v1", "2">>>>

T_GS == <<"G", "S">>
T_Index == <<"I", "n", "d", "e", "x">>
T_11 == <<"1", "1">>
T_2 == <<"2">>
T_22 == <<"2", "2">>
T_123 == <<"1", "2", "3">>
T_aa == <<"a", "a">>
T_bb == <<"b", "b">>

P_001 == Page(<<Md("001")>>, T_bb)
P_002 == Page(<<Md("002")>>, T_11)
P_one == Page(<<Md("one")>>, T_2)
P_childmd == Page(<<Md("child")>>, T_Index)
P_three == Page(ChildRel \o <<Md("three")>>, T_aa)
P_004 == Page(ChildRel \o <<Md("004")>>, T_2)
P_four == Page(NestedRel \o <<Md("four")>>, T_22)
P_d001 == Page(DottedRel \o <<Md("001")>>, T_123)

\* the lists of documents of a directory: its README.md among at most
\* MaxDocs pages of pool; the README.md first, or (anywhere) at any place
DocLists(readme, pool, anywhere) ==
    IF anywhere
    THEN {s \in SeqsUpTo(pool \cup {readme}, MaxDocs + 1) : readme \in Range(s)}
    ELSE {<<readme>> \o s : s \in SeqsUpTo(pool, MaxDocs)}

\* the directories at rel (below the root "docs"): a README.md titled
\* indexTitle, pages of pool, and one of the lists of subdirectories
DirOptions(rel, indexTitle, pool, subdirs, anywhere) ==
    {[path |-> RootPath \o rel, docs |-> ds, dirs |-> sub] :
        ds \in DocLists(Page(rel \o <<README>>, indexTitle), pool, anywhere),
        sub \in subdirs}

NestedDirs == DirOptions(NestedRel, T_11, {P_four}, {<<>>}, TRUE)

ChildDirs ==
    DirOptions(ChildRel, T_Index, {P_three, P_004},
               {<<>>} \cup {<<n>> : n \in NestedDirs}, TRUE)

DottedDirs == DirOptions(DottedRel, T_Index, {P_d001}, {<<>>}, FALSE)

RootSubdirs ==
    {<<>>} \cup {<<c>> : c \in ChildDirs} \cup {<<v>> : v \in DottedDirs}
    \cup {<<c, v>> : c \in ChildDirs, v \in DottedDirs}
    \cup {<<v, c>> : c \in ChildDirs, v \in DottedDirs}

\* the directory trees build_for is called on without a rule list
Trees ==
    DirOptions(<<>>, T_GS, {P_001, P_002, P_one, P_childmd}, RootSubdirs, TRUE)

Dir(rel, docs, dirs) == [path |-> RootPath \o rel, docs |-> docs, dirs |-> dirs]

D_nested == Dir(NestedRel, <<Page(NestedRel \o <<README>>, T_11), P_four>>, <<>>)
D_child == Dir(ChildRel, <<Page(ChildRel \o <<README>>, T_Index), P_three>>, <<>>)
D_childFull ==
    Dir(ChildRel, <<Page(ChildRel \o <<README>>, T_Index), P_three, P_004>>,
        <<D_nested>>)
D_childBare == Dir(ChildRel, <<Page(ChildRel \o <<README>>, T_Index)>>, <<>>)
D_dotted == Dir(DottedRel, <<Page(DottedRel \o <<README>>, T_Index), P_d001>>, <<>>)
RootReadme == Page(<<README>>, T_GS)

\* the directory trees build_for is called on with a rule list configured
CustomTrees ==
    { Dir(<<>>, <<RootReadme, P_one, P_001>>, <<D_childFull>>),
      Dir(<<>>, <<RootReadme, P_001, P_002>>, <<D_child>>),
      Dir(<<>>, <<RootReadme, P_one>>, <<D_dotted, D_child>>),
      Dir(<<>>, <<RootReadme, P_childmd, P_one>>, <<D_childBare>>),
      Dir(<<>>, <<RootReadme, P_childmd>>, <<D_childFull>>),
      Dir(<<>>, <<RootReadme, P_one, P_002>>, <<>>) }

\* the rules without nested rules a rule list may hold in each scope
LeafRules(scope) ==
    IF scope = "top"
    THEN { FileRule(RootPath \o <<Md("one")>>),
           FileRule(RootPath \o <<Md("child")>>),
           FileRule(RootPath \o ChildRel),
           FileRule(RootPath \o <<Md("missing")>>),
           DirRule(RootPath \o ChildRel, "DirNone", <<>>),
           DirRule(RootPath \o ChildRel, "DirWildCard", <<>>),
           DirRule(RootPath \o DottedRel, "DirWildCard", <<>>) }
    ELSE IF scope = "child"
    THEN { FileRule(RootPath \o ChildRel \o <<Md("three")>>),
           FileRule(RootPath \o ChildRel \o <<Md("004")>>),
           FileRule(RootPath \o <<Md("one")>>),
           DirRule(RootPath \o NestedRel, "DirNone", <<>>),
           DirRule(RootPath \o NestedRel, "DirWildCard", <<>>) }
    ELSE { FileRule(RootPath \o NestedRel \o <<Md("four")>>),
           FileRule(RootPath \o ChildRel \o <<Md("three")>>) }

\* the directories a rule may give nested rules for, with their scope
ExplicitDirs(scope) ==
    IF scope = "top" THEN {[path |-> RootPath \o ChildRel, scope |-> "child"]}
    ELSE IF scope = "child"
    THEN {[path |-> RootPath \o NestedRel, scope |-> "nested"]}
    ELSE {}

RECURSIVE RuleSize(_)
\* the number of rules of a rule, its nested rules counted
RuleSize(r) ==
    IF r.nested = <<>> THEN 1
    ELSE 1 + RuleSize([r EXCEPT !.nested = Tail(r.nested)])
           + RuleSize(r.nested[1]) - 1

RECURSIVE RulesUpTo(_, _)
RECURSIVE ListsUpTo(_, _)
\* the rules of a scope of at most n rules
RulesUpTo(scope, n) ==
    IF n = 0 THEN {}
    ELSE LeafRules(scope) \cup
         UNION {{DirRule(e.path, "DirExplicit", l) : l \in ListsUpTo(e.scope, n - 1)} :
                    e \in ExplicitDirs(scope)}

\* the rule lists of a scope of at most n rules in all
ListsUpTo(scope, n) ==
    {<<>>} \cup
    UNION {{<<r>> \o rest : rest \in ListsUpTo(scope, n - RuleSize(r))} :
               r \in RulesUpTo(scope, n)}

NoNav == [some |-> FALSE, rules |-> <<>>]
SomeNav(rules) == [some |-> TRUE, rules |-> rules]

\* the configurations: no rule list, or one of at most MaxRules rules
Configs == {NoNav} \cup {SomeNav(l) : l \in ListsUpTo("top", MaxRules)}

\* the directories build_for is called on: every tree of Trees when the
\* default tree is returned as it is, the trees of CustomTrees when it is
\* customised by a rule list
InputDirs(n) == IF n.some THEN CustomTrees ELSE Trees

-----------------------------------------------------------------------------
(* The state machine *)

NoDir == [path |-> <<>>, docs |-> <<>>, dirs |-> <<>>]
NoResult == [ok |-> FALSE, links |-> <<>>, msg |-> <<>>]

\* Navigation::new(config)
Init ==
    /\ nav \in Configs
    /\ pc = "new"
    /\ dir = NoDir
    /\ default = <<>>
    /\ result = NoResult

\* Navigation::build_for(d)
BuildFor(d) ==
    /\ pc = "new"
    /\ dir' = d
    /\ default' = BuildLinks(d)
    /\ result' = build_for(nav, default')
    /\ pc' = "done"
    /\ UNCHANGED nav

\* build_for is called once per site build
Next == pc = "new" /\ \E d \in InputDirs(nav) : BuildFor(d)

Spec == Init /\ [][Next]_vars

-----------------------------------------------------------------------------
(* What the properties below speak of *)

RECURSIVE ListsOf(_)
\* the link lists of a tree: the list itself and the children lists below it
ListsOf(links) ==
    {links} \cup UNION {ListsOf(links[i].children) : i \in 1..Len(links)}

RECURSIVE AllLinks(_)
\* the links of a tree, at every depth
AllLinks(links) ==
    Range(links) \cup UNION {AllLinks(links[i].children) : i \in 1..Len(links)}

RECURSIVE AllDirs(_)
\* the directories of a tree, the root included
AllDirs(d) == {d} \cup UNION {AllDirs(d.dirs[i]) : i \in 1..Len(d.dirs)}

\* a path as the string it is: its components joined by "/"
PathStr(path) == JoinWith([i \in 1..Len(path) |-> NameStr(path[i])], "/")

\* the string u occurs in the string s
IsInfix(u, s) ==
    \E k \in 0..(Len(s) - Len(u)) : SubSeq(s, k + 1, k + Len(u)) = u

\* the candidate a rule path is matched to: the first one with its URI
Matched(path, cands) == cands[FirstMatch(path, cands)]

Customized == pc = "done" /\ nav.some /\ result.ok

-----------------------------------------------------------------------------
(* C1 *)

RECURSIVE OneEntryPerRule(_, _)
OneEntryPerRule(rules, out) ==
    /\ Len(out) = Len(rules)
    /\ \A i \in 1..Len(rules) :
          /\ out[i].path = RuleUri(rules[i].path)
          /\ rules[i].kind = "DirExplicit" =>
                 OneEntryPerRule(rules[i].nested, out[i].children)

\* C1: where customize completes, the result has one entry per rule, in
\* rule order, the i-th entry carrying the URI of the i-th rule's path (at
\* the top level and in every nested rule list), and a candidate no rule
\* names is not in the result; the title order of the candidates plays no
\* part.
C1_OneEntryPerRuleInRuleOrder ==
    Customized =>
        /\ OneEntryPerRule(nav.rules, result.links)
        /\ \A k \in 1..Len(default) :
              (\A i \in 1..Len(nav.rules) :
                   RuleUri(nav.rules[i].path) # default[k].path)
              => \A j \in 1..Len(result.links) :
                     result.links[j].path # default[k].path

\* two rules in the order opposite to their titles' order, and a candidate
\* left out
C1_Witness ==
    /\ Customized
    /\ Len(result.links) = 2
    /\ compare_str(result.links[1].title, result.links[2].title) = "Greater"
    /\ \E k \in 1..Len(default) :
          \A j \in 1..Len(result.links) : result.links[j].path # default[k].path

-----------------------------------------------------------------------------
(* C2 *)

DigitLeading(t) == t # <<>> /\ IsDigit(t[1])
LetterLeading(t) == t # <<>> /\ ~IsDigit(t[1])

SortedByTitle(L) ==
    /\ \A i \in 1..(Len(L) - 1) :
          compare_str(L[i].title, L[i + 1].title) # "Greater"
    /\ \A i, j \in 1..Len(L) :
          DigitLeading(L[i].title) /\ LetterLeading(L[j].title) => i < j

\* C2: every list of the default tree, the top-level one and the children
\* of every link, is sorted by compare_str over the titles, and in it a
\* title that starts with a digit precedes every title that starts with a
\* letter.
C2_DefaultListsSorted ==
    pc = "done" => \A L \in ListsOf(default) : SortedByTitle(L)

\* a directory's link sorted before a document's, its own children holding
\* a digit-leading title before a letter-leading one
C2_Witness ==
    /\ pc = "done"
    /\ \E i \in 1..Len(default) :
          /\ i < Len(default)
          /\ default[Len(default)].children = <<>>
          /\ Len(default[i].children) >= 3
          /\ DigitLeading(default[i].children[1].title)
          /\ LetterLeading(default[i].children[3].title)
          /\ default[i].children[2].children # <<>>

-----------------------------------------------------------------------------
(* C3 *)

\* the link the builder makes for the child directory c
LinkOfDir(c) ==
    Link(path_to_uri(html_path(index(c))), title(index(c)), BuildLinks(c))

\* C3: for every directory D of the tree, no link of build(D) has the path
\* of D's own index document, and for every child directory C of D exactly
\* one link of build(D) has C's index title, the URI of C's index document
\* and the children build(C).
C3_IndexOnlyInParentScope ==
    pc = "done" =>
        \A d \in AllDirs(dir) :
            LET L == BuildLinks(d)
            IN  /\ \A i \in 1..Len(L) :
                      L[i].path # path_to_uri(html_path(index(d)))
                /\ \A k \in 1..Len(d.dirs) :
                      Cardinality({i \in 1..Len(L) : L[i] = LinkOfDir(d.dirs[k])}) = 1

-----------------------------------------------------------------------------
(* C4 *)

RECURSIVE UnmatchedPaths(_, _)
\* the paths of the rules that no link of their in-scope candidates carries
UnmatchedPaths(rules, cands) ==
    UNION { IF Matches(rules[i].path, cands) = {} THEN {rules[i].path}
            ELSE IF rules[i].kind = "DirExplicit"
                 THEN UnmatchedPaths(rules[i].nested,
                                     Matched(rules[i].path, cands).children)
                 ELSE {} : i \in 1..Len(rules) }

\* C4: a rule list with an unmatched rule, at any nesting depth, makes
\* build_for return no link list at all, and the error it ends with names
\* the path of an unmatched rule.
C4_UnmatchedRuleAbortsNamingPath ==
    (pc = "done" /\ nav.some /\ UnmatchedPaths(nav.rules, default) # {}) =>
        /\ ~result.ok
        /\ result.links = <<>>
        /\ \E p \in UnmatchedPaths(nav.rules, default) :
              IsInfix(PathStr(p), result.msg)

-----------------------------------------------------------------------------
(* C5 *)

RECURSIVE ExplicitConforms(_, _, _)
ExplicitConforms(rules, cands, out) ==
    \A i \in 1..Len(rules) :
        rules[i].kind = "DirExplicit" =>
            LET m == Matched(rules[i].path, cands)
                nested == rules[i].nested
                kids == out[i].children
            IN  /\ out[i].path = m.path
                /\ out[i].title = m.title
                /\ Len(kids) = Len(nested)
                /\ \A j \in 1..Len(nested) :
                      /\ kids[j].path = RuleUri(nested[j].path)
                      /\ \E k \in 1..Len(m.children) :
                            /\ m.children[k].path = kids[j].path
                            /\ m.children[k].title = kids[j].title
                /\ \A k \in 1..Len(m.children) :
                      (\A j \in 1..Len(nested) :
                           RuleUri(nested[j].path) # m.children[k].path)
                      => \A j \in 1..Len(kids) :
                             kids[j].path # m.children[k].path
                /\ ExplicitConforms(nested, m.children, kids)

\* C5: the entry of a rule Dir(path, Explicit(nested)) matched to the
\* candidate m has m's path and title; its children are one per nested
\* rule, in nested-rule order, each a child of m with the nested rule's
\* URI; a child of m that no nested rule names is absent; and so at every
\* nesting depth.
C5_ExplicitChildrenFromMatchedOnly ==
    Customized =>
        /\ Len(result.links) = Len(nav.rules)
        /\ ExplicitConforms(nav.rules, default, result.links)

\* nested rules two levels deep that keep one grandchild and drop a child
C5_Witness ==
    /\ Customized
    /\ Len(nav.rules) = 1
    /\ nav.rules[1].kind = "DirExplicit"
    /\ Len(nav.rules[1].nested) = 1
    /\ nav.rules[1].nested[1].kind = "DirExplicit"
    /\ Len(result.links[1].children[1].children) = 1
    /\ Len(Matched(nav.rules[1].path, default).children) >= 2

-----------------------------------------------------------------------------
(* C6 *)

RECURSIVE WholeOrNothing(_, _, _)
WholeOrNothing(rules, cands, out) ==
    \A i \in 1..Len(rules) :
        LET m == Matched(rules[i].path, cands)
        IN  /\ rules[i].kind \in {"File", "DirWildCard"} => out[i] = m
            /\ rules[i].kind = "DirNone" => out[i] = Link(m.path, m.title, <<>>)
            /\ rules[i].kind = "DirExplicit" =>
                   WholeOrNothing(rules[i].nested, m.children, out[i].children)

\* C6: the entry of a matched File or Dir(.., WildCard) rule is the matched
\* candidate m itself, its children subtree unchanged; the entry of a
\* matched Dir(.., omitted) rule is m with no children; at every nesting
\* depth; and the candidate list is the default list still.
C6_SubtreeWholeOrNotAtAll ==
    Customized =>
        /\ Len(result.links) = Len(nav.rules)
        /\ WholeOrNothing(nav.rules, default, result.links)
        /\ default = BuildLinks(dir)

\* a directory with children taken once without them and once with them
C6_Witness ==
    /\ Customized
    /\ \E i, j \in 1..Len(nav.rules) :
          /\ nav.rules[i].kind = "DirNone"
          /\ nav.rules[j].kind \in {"File", "DirWildCard"}
          /\ Len(Matched(nav.rules[i].path, default).children) >= 2
          /\ result.links[i].children = <<>>
          /\ Len(result.links[j].children) >= 2

-----------------------------------------------------------------------------
(* C7 *)

\* the rule is a Dir rule for a child directory of d
NamesChildDir(r, d) ==
    /\ r.kind \in {"DirNone", "DirWildCard"}
    /\ \E k \in 1..Len(d.dirs) : d.dirs[k].path = r.path

\* the rule is a File rule for a page of d that is not its index
NamesPage(r, d) ==
    /\ r.kind = "File"
    /\ \E k \in 1..Len(d.docs) :
          /\ RootPath \o d.docs[k].path = r.path
          /\ d.docs[k] # index(d)

\* the link of the default list made for what the rule names
BuiltFor(r, d) ==
    IF r.kind = "File"
    THEN DocLink(d.docs[CHOOSE k \in 1..Len(d.docs) :
                            RootPath \o d.docs[k].path = r.path])
    ELSE LinkOfDir(d.dirs[CHOOSE k \in 1..Len(d.dirs) : d.dirs[k].path = r.path])

\* C7: rules that name child directories and non-index pages of the
\* directory are all matched, each to the link the builder made for what
\* the rule names.
C7_ExistingTargetsMatch ==
    (/\ pc = "done"
     /\ nav.some
     /\ \A i \in 1..Len(nav.rules) :
           NamesChildDir(nav.rules[i], dir) \/ NamesPage(nav.rules[i], dir))
    => /\ result.ok
       /\ \A i \in 1..Len(nav.rules) :
             /\ result.links[i].path = BuiltFor(nav.rules[i], dir).path
             /\ result.links[i].title = BuiltFor(nav.rules[i], dir).title

-----------------------------------------------------------------------------
(* C8 *)

PageExtensions == {"html", "md"}

\* a URI string: one leading "/", segments joined by single "/", no "/" at
\* the end unless it is "/" itself, no page-file extension at the end
Canonical(u) ==
    /\ Len(u) >= 1
    /\ u[1] = "/"
    /\ \A k \in 1..Len(u) : u[k] # ""
    /\ \A k \in 2..Len(u) : u[k] = "/" => (u[k - 1] # "/" /\ k < Len(u))
    /\ ~(Len(u) >= 3 /\ u[Len(u) - 1] = "." /\ Last(u) \in PageExtensions)

RECURSIVE DirsCarryOwnPath(_, _)
\* every child directory has a link with the directory's path below the
\* root, and so on below it
DirsCarryOwnPath(d, links) ==
    \A k \in 1..Len(d.dirs) :
        \E i \in 1..Len(links) :
            /\ links[i].path = <<"/">> \o PathStr(Tail(d.dirs[k].path))
            /\ links[i].title = title(index(d.dirs[k]))
            /\ DirsCarryOwnPath(d.dirs[k], links[i].children)

\* C8: every path of the default tree and of the tree build_for returns is
\* a canonical URI, and the link of a directory carries the directory's
\* path, not a last segment "index".
C8_PathsCanonical ==
    pc = "done" =>
        /\ \A l \in AllLinks(default) \cup AllLinks(result.links) :
              Canonical(l.path)
        /\ DirsCarryOwnPath(dir, default)

\* a page three directories deep and a directory with a dot in its name
C8_Witness ==
    /\ pc = "done"
    /\ result.ok
    /\ \E l \in AllLinks(result.links) :
          l.path = <<"/", "child", "/", "nested", "/", "four">>
    /\ \E l \in AllLinks(result.links) :
          l.path = <<"/", "v1", ".", "2">> /\ l.children # <<>>

-----------------------------------------------------------------------------
(* C9 *)

Key(c, fold) == IF fold THEN CharKeyFolded(c) ELSE Code(c)

RECURSIVE RunsOf(_)
\* a title cut into its maximal runs of digits and of other characters
RunsOf(t) ==
    IF t = <<>> THEN <<>>
    ELSE LET n == CHOOSE m \in 1..Len(t) :
                      /\ \A k \in 1..m : IsDigit(t[k]) = IsDigit(t[1])
                      /\ m < Len(t) => IsDigit(t[m + 1]) # IsDigit(t[1])
         IN  <<SubSeq(t, 1, n)>> \o RunsOf(SubSeq(t, n + 1, Len(t)))

\* two runs of characters that are not digits, character by character
LexCompare(a, b, fold) ==
    LET n == IF Len(a) < Len(b) THEN Len(a) ELSE Len(b)
        diff == {k \in 1..n : Key(a[k], fold) # Key(b[k], fold)}
    IN  IF diff = {} THEN CmpInt(Len(a), Len(b))
        ELSE LET k == CHOOSE x \in diff : \A y \in diff : x <= y
             IN  CmpInt(Key(a[k], fold), Key(b[k], fold))

\* two runs: digits by value, a digit run before a letter run
RunCompare(a, b, fold) ==
    IF IsDigit(a[1]) /\ IsDigit(b[1]) THEN CmpInt(NumVal(a), NumVal(b))
    ELSE IF IsDigit(a[1]) THEN "Less"
    ELSE IF IsDigit(b[1]) THEN "Greater"
    ELSE LexCompare(a, b, fold)

\* natural sort, run by run from the start
NaturalCompare(s, t, fold) ==
    LET a == RunsOf(s)
        b == RunsOf(t)
        n == IF Len(a) < Len(b) THEN Len(a) ELSE Len(b)
        diff == {k \in 1..n : RunCompare(a[k], b[k], fold) # "Equal"}
    IN  IF diff = {} THEN CmpInt(Len(a), Len(b))
        ELSE LET k == CHOOSE x \in diff : \A y \in diff : x <= y
             IN  RunCompare(a[k], b[k], fold)

NaturallyOrdered(L, fold) ==
    \A i, j \in 1..Len(L) :
        i < j => NaturalCompare(L[i].title, L[j].title, fold) # "Greater"

\* C9, as stated: the links of every default list are in natural order,
\* digit runs by value, other runs case-insensitively by character, a
\* digit run before a letter run.
C9_CaseInsensitiveNaturalOrder ==
    pc = "done" => \A L \in ListsOf(default) : NaturallyOrdered(L, TRUE)

\* C9, amended: the links of every default list are in natural order,
\* digit runs by value, other runs by character code (an upper-case letter
\* before every lower-case one), a digit run before a letter run.
C9_CodePointNaturalOrder ==
    pc = "done" => \A L \in ListsOf(default) : NaturallyOrdered(L, FALSE)

\* "2" before "11" in one list, "Index" before "bb" in another
C9_Witness ==
    /\ pc = "done"
    /\ \E L \in ListsOf(default) :
          \E i \in 1..(Len(L) - 1) : L[i].title = T_2 /\ L[i + 1].title = T_11
    /\ \E L \in ListsOf(default) :
          \E i \in 1..(Len(L) - 1) : L[i].title = T_Index /\ L[i + 1].title = T_bb

-----------------------------------------------------------------------------
(* C10 *)

Distinct(s) == \A i, j \in 1..Len(s) : i # j => s[i] # s[j]

\* the source paths of the documents and subdirectories of d
SourcePaths(d) ==
    [i \in 1..Len(d.docs) |-> RootPath \o d.docs[i].path]
    \o [i \in 1..Len(d.dirs) |-> d.dirs[i].path]

\* C10: in a tree whose documents and directories have pairwise distinct
\* source paths, no two links of one list of the default tree have the
\* same path.
C10_PathsUniqueInList ==
    (pc = "done" /\ \A d \in AllDirs(dir) : Distinct(SourcePaths(d))) =>
        \A L \in ListsOf(default) :
            \A i, j \in 1..Len(L) : i # j => L[i].path # L[j].path

=============================================================================
